---- MODULE Spec2Model ----
(***************************************************************************)
(* scripts/migrate_registry.py: the rewrite of a C source file from a      *)
(* temporary workflow registry to the daemon's shared, mutex-protected     *)
(* registry.                                                               *)
(*                                                                         *)
(* A document is a sequence of tokens.  A token is a piece of text: its    *)
(* concatenation is the file's text.  The pieces are the literal segments  *)
(* of the four regular expressions, cut where a character class of the     *)
(* expressions can end (before every ");" and at every double quote), the  *)
(* whitespace characters " " and "\n" one by one, and "x" for a character  *)
(* that occurs in none of the expressions' literals.                       *)
(***************************************************************************)
EXTENDS Integers, Sequences, FiniteSets, TLC

\* ------------------------------------------------------------------ tokens
SP == " "
NL == "\n"
Q == "\""
RPS == ");"
X == "x"
LoadComment == "/* Load registry */"
Decl == "workflow_registry_t* registry = workflow_registry_create("
UseComment == "/* Use shared registry with mutex protection */"
Lock == "pthread_mutex_lock(&g_api_daemon->workflow_registry_lock"
Shared == "workflow_registry_t* registry = g_api_daemon->workflow_registry;"
IfNull == "if (!registry) {"
SetErr == "http_response_set_error("
RespArgs == "resp, HTTP_STATUS_SERVER_ERROR, "
FailedMsg == "Failed to create registry"
RetMem == "return E_SYSTEM_MEMORY;"
RBrace == "}"
Unlock == "pthread_mutex_unlock(&g_api_daemon->workflow_registry_lock"
NotInitMsg == "Registry not initialized"
RetState == "return E_INVALID_STATE;"
Load == "int result = workflow_registry_load(registry"
IfResult == "if (result != ARGO_SUCCESS && result != E_SYSTEM_FILE) {"
Destroy == "workflow_registry_destroy(registry"
RetResult == "return result;"
CleanupComment == "/* Cleanup dead workflows after loading */"
Cleanup == "workflow_registry_cleanup_dead_workflows(registry"

\* \s: the whitespace characters.
IsSpace(t) == t \in {SP, NL}

\* The tokens that hold the character c (for the classes [^"] and [^)]).
HasChar(t, c) ==
    IF c = Q THEN t = Q
    ELSE IF c = ")" THEN t \in {RPS, IfNull, IfResult}
    ELSE FALSE

\* ------------------------------------------------------- regular expressions
\* The elements of a pattern: a literal token, (\s+) as group g (g = 0: not a
\* group), [^c]+, and an optional group (p)?.
Lit(s) == [t |-> "lit", s |-> s]
Ws(g) == [t |-> "ws", g |-> g]
NotCh(c) == [t |-> "not", c |-> c]
Opt(p) == [t |-> "opt", p |-> p]
\* A back-reference \g of a replacement template.
Ref(g) == [t |-> "ref", g |-> g]
Lits(toks) == [k \in 1..Len(toks) |-> Lit(toks[k])]

MaxGroup == 9
NoCaps == [g \in 1..MaxGroup |-> <<>>]
NoMatch == [ok |-> FALSE, end |-> 0, caps |-> NoCaps]

InClass(e, t) == IF e.t = "ws" THEN IsSpace(t) ELSE ~HasChar(t, e.c)

\* The length of the longest run of tokens of e's class at position i.
RECURSIVE RunLen(_, _, _)
RunLen(e, text, i) ==
    IF i <= Len(text) /\ InClass(e, text[i]) THEN 1 + RunLen(e, text, i + 1) ELSE 0

\* re's backtracking match of the pattern pat at position i: the first match in
\* the engine's order (a greedy + takes the longest run first and gives tokens
\* back one by one; an optional group is tried present, then absent).
RECURSIVE MatchAt(_, _, _, _)
RECURSIVE TryRun(_, _, _, _, _, _)
MatchAt(pat, text, i, caps) ==
    IF Len(pat) = 0 THEN [ok |-> TRUE, end |-> i, caps |-> caps]
    ELSE LET e == Head(pat)
             rest == Tail(pat)
         IN  IF e.t = "lit"
             THEN IF i <= Len(text) /\ text[i] = e.s
                  THEN MatchAt(rest, text, i + 1, caps)
                  ELSE NoMatch
             ELSE IF e.t = "opt"
             THEN LET r == MatchAt(e.p \o rest, text, i, caps)
                  IN  IF r.ok THEN r ELSE MatchAt(rest, text, i, caps)
             ELSE TryRun(e, rest, text, i, RunLen(e, text, i), caps)

TryRun(e, rest, text, i, n, caps) ==
    IF n = 0 THEN NoMatch
    ELSE LET got == IF e.t = "ws" /\ e.g > 0
                    THEN [caps EXCEPT ![e.g] = SubSeq(text, i, i + n - 1)]
                    ELSE caps
             r == MatchAt(rest, text, i + n, got)
         IN  IF r.ok THEN r ELSE TryRun(e, rest, text, i, n - 1, caps)

\* The expansion of a replacement template with a match's groups.
RECURSIVE Expand(_, _)
Expand(repl, caps) ==
    IF Len(repl) = 0 THEN <<>>
    ELSE (IF Head(repl).t = "ref" THEN caps[Head(repl).g] ELSE <<Head(repl).s>>)
         \o Expand(Tail(repl), caps)

\* re.sub(pattern, repl, text): every non-overlapping match, leftmost first,
\* replaced; the text between the matches kept.
RECURSIVE SubFrom(_, _, _, _)
SubFrom(pat, repl, text, i) ==
    IF i > Len(text) THEN <<>>
    ELSE LET r == MatchAt(pat, text, i, NoCaps)
         IN  IF r.ok
             THEN Expand(repl, r.caps) \o SubFrom(pat, repl, text, r.end)
             ELSE <<text[i]>> \o SubFrom(pat, repl, text, i + 1)

re_sub(pat, repl, text) == SubFrom(pat, repl, text, 1)

\* re.sub(pattern, repl, text, count=1): the first match alone replaced.
RECURSIVE SubFirstFrom(_, _, _, _)
SubFirstFrom(pat, repl, text, i) ==
    IF i > Len(text) THEN <<>>
    ELSE LET r == MatchAt(pat, text, i, NoCaps)
         IN  IF r.ok
             THEN Expand(repl, r.caps) \o SubSeq(text, r.end, Len(text))
             ELSE <<text[i]>> \o SubFirstFrom(pat, repl, text, i + 1)

\* re.search(pattern, text) is not None.
HasMatch(pat, text) == \E i \in 1..Len(text) : MatchAt(pat, text, i, NoCaps).ok

\* ------------------------------------------------------- migrate_endpoint
pattern1 ==
    <<Opt(<<Lit(LoadComment), Ws(0)>>), Lit(Decl), Lit(Q), NotCh(Q), Lit(Q), Lit(RPS)>>
replacement1 ==
    Lits(<<UseComment, NL, SP, SP, SP, SP, Lock, RPS, NL, NL, SP, SP, SP, SP, Shared>>)

pattern2 ==
    <<Lit(IfNull), Ws(1), Lit(SetErr), Lit(RespArgs), Lit(Q), Lit(FailedMsg), Lit(Q),
      Lit(RPS), Ws(2), Lit(RetMem), Ws(3), Lit(RBrace)>>
replacement2 ==
    <<Lit(IfNull), Ref(1), Lit(Unlock), Lit(RPS), Ref(1), Lit(SetErr), Lit(RespArgs),
      Lit(Q), Lit(NotInitMsg), Lit(Q), Lit(RPS), Ref(1), Lit(RetState), Ref(3),
      Lit(RBrace)>>

pattern3 ==
    <<Lit(Load), Lit(RPS), Ws(1), Lit(IfResult), Ws(2), Lit(Destroy), Lit(RPS), Ws(3),
      Lit(SetErr), NotCh(")"), Lit(RPS), Ws(4), Lit(RetResult), Ws(5), Lit(RBrace),
      Ws(6), Opt(<<Lit(CleanupComment)>>), Ws(8), Opt(<<Lit(Cleanup), Lit(RPS)>>)>>
replacement3 == <<>>

pattern4 == <<Lit(Destroy), Lit(RPS)>>
replacement4 == <<Lit(Unlock), Lit(RPS)>>

\* Rule A without the optional comment group.
Rule1_NoComment(content) == re_sub(Tail(pattern1), replacement1, content)
\* Rule A with "[^"]*" for the argument.
Rule1_AnyArg(content) ==
    re_sub(<<Head(pattern1), Lit(Decl), Lit(Q), Opt(<<NotCh(Q)>>), Lit(Q), Lit(RPS)>>,
           replacement1, content)
Rule1(content) == re_sub(pattern1, replacement1, content)

\* Rule B without the unlock line in its replacement.
Rule2_NoUnlock(content) ==
    re_sub(pattern2, <<Head(replacement2)>> \o SubSeq(replacement2, 5, Len(replacement2)),
           content)
Rule2(content) == re_sub(pattern2, replacement2, content)

\* Rule C without the optional cleanup call at its end.
Rule3_NoCleanup(content) ==
    re_sub(SubSeq(pattern3, 1, Len(pattern3) - 1), replacement3, content)
Rule3(content) == re_sub(pattern3, replacement3, content)

\* Rule D with count=1.
Rule4_FirstOnly(content) == SubFirstFrom(pattern4, replacement4, content, 1)
Rule4(content) == re_sub(pattern4, replacement4, content)

migrate_endpoint(content) == Rule4(Rule3(Rule2(Rule1(content))))

\* ---------------------------------------------------------------- documents
MaxIndent == 1
MaxRuns == 2

\* A line break followed by k spaces.
Indent(k) == <<NL>> \o [j \in 1..k |-> SP]
\* The whitespace runs of the documents.
WsRuns == {<<SP>>} \cup {Indent(k) : k \in 0..MaxIndent}
Indent4 == <<NL, SP, SP, SP, SP>>

\* The declaration of Rule A: what precedes it, and the call's argument.
Leads == {<<>>, <<LoadComment>>} \cup {<<LoadComment>> \o w : w \in WsRuns}
Args == {<<>>, <<X>>, <<X, RPS, NL, X>>}
DeclDoc(lead, arg) == lead \o <<Decl, Q>> \o arg \o <<Q, RPS>>

\* The null check of Rule B, with its three whitespace runs.
NullCheck(w1, w2, w3) ==
    <<IfNull>> \o w1 \o <<SetErr, RespArgs, Q, FailedMsg, Q, RPS>> \o w2
        \o <<RetMem>> \o w3 \o <<RBrace>>

\* The load block of Rule C up to its closing brace, and what may follow it.
LoadCore(w) ==
    <<Load, RPS>> \o w \o <<IfResult>> \o w \o <<Destroy, RPS>> \o w
        \o <<SetErr, RespArgs, Q, X, Q, RPS>> \o w \o <<RetResult>> \o w \o <<RBrace>>
Comments == {<<>>, <<CleanupComment>>}
Cleanups == {<<>>, <<Cleanup, RPS>>}
Tails ==
    {w6 \o c \o w8 \o cl : w6 \in WsRuns, c \in Comments,
                           w8 \in {<<>>, <<NL>>}, cl \in Cleanups}
FullTails == {w6 \o <<CleanupComment>> \o w8 \o <<Cleanup, RPS>> : w6, w8 \in WsRuns}

DestroyCall == <<Destroy, RPS>>

\* The minimal document of the end-to-end example.
E2EDoc ==
    DeclDoc(<<>>, <<X>>) \o <<NL>> \o NullCheck(Indent4, Indent4, <<NL>>) \o <<NL>>
        \o DestroyCall \o <<NL>>

Doc(kind, pre, mid, post) == [kind |-> kind, pre |-> pre, mid |-> mid, post |-> post]

DeclDocs ==
    {Doc("decl", pre, DeclDoc(lead, arg), post) :
        pre \in {<<>>, <<X, NL>>}, lead \in Leads, arg \in Args,
        post \in {<<>>, <<NL>> \o DestroyCall}}
    \cup {Doc("nested", <<Decl, Q>>, DeclDoc(<<>>, <<X>>), <<Q, RPS>>)}
NullDocs ==
    {Doc("null", pre, NullCheck(w1, w2, w3), <<>>) :
        pre \in {<<>>, <<X, NL>>}, w1 \in WsRuns, w2 \in WsRuns, w3 \in WsRuns}
LoadContexts ==
    {<<<<>>, <<>>>>, <<<<X>>, <<X>>>>, <<<<Decl>>, <<Q, X, Q, RPS>>>>,
     <<<<Destroy>>, <<RPS>>>>}
LoadDocs ==
    {Doc("load", cx[1], LoadCore(w) \o tail, cx[2]) :
        cx \in LoadContexts, w \in {<<NL>>, <<NL, SP>>}, tail \in Tails \cup FullTails}
DestroyDocs ==
    {Doc("destroy", <<>>, mid, <<>>) :
        mid \in {DestroyCall, DestroyCall \o <<NL>> \o DestroyCall,
                 <<X>> \o DestroyCall \o DestroyCall, <<Unlock, RPS, NL>> \o DestroyCall}}
PlainDocs ==
    {Doc("plain", <<>>, mid, <<>>) :
        mid \in {<<>>, <<X, NL, X>>, <<Destroy, X, RPS>>, <<Decl, X, RPS>>,
                 <<LoadComment, NL, Decl, Q, Q, RPS>>,
                 <<IfNull, NL, SetErr, RespArgs, Q, NotInitMsg, Q, RPS, NL, RetMem, NL, RBrace>>,
                 <<IfNull, SetErr, RespArgs, Q, FailedMsg, Q, RPS, NL, RetMem, NL, RBrace>>,
                 LoadCore(<<NL>>), <<Load, RPS, NL, Cleanup, RPS>>}}
Docs ==
    DeclDocs \cup NullDocs \cup LoadDocs \cup DestroyDocs \cup PlainDocs
        \cup {Doc("e2e", <<>>, E2EDoc, <<>>)}

\* ------------------------------------------------------------------ the run
VARIABLES
    doc,        \* the shape the file's first content was built from
    argc,       \* len(sys.argv)
    perm,       \* the access the file at sys.argv[1] gives: "rw", "r" or "none"
    file,       \* the text of the file at sys.argv[1]
    orig,       \* the file's text when the run began
    pc,         \* the statement the run is at
    content,    \* content (of the script, then of migrate_endpoint)
    migrated,   \* migrated
    out,        \* the lines printed to standard output
    status,     \* the exit status, "none" while the process lives
    ops,        \* the file operations the run has done
    crashed,    \* the process was interrupted at pc
    run         \* the number of the run

vars ==
    <<doc, argc, perm, file, orig, pc, content, migrated, out, status, ops, crashed, run>>

Prefixes(s) == {SubSeq(s, 1, k) : k \in 0..Len(s)}
IsPrefix(p, s) == Len(p) <= Len(s) /\ SubSeq(s, 1, Len(p)) = p

Init ==
    /\ doc \in Docs
    /\ argc \in {1, 2, 3}
    /\ perm \in {"rw", "r", "none"}
    /\ file = doc.pre \o doc.mid \o doc.post
    /\ orig = file
    /\ pc = "start"
    /\ content = <<>>
    /\ migrated = <<>>
    /\ out = <<>>
    /\ status = "none"
    /\ ops = {}
    /\ crashed = FALSE
    /\ run = 1

Live == ~crashed /\ status = "none"

\* if len(sys.argv) != 2: print usage; sys.exit(1)
UsageExit ==
    /\ Live /\ pc = "start" /\ argc # 2
    /\ out' = Append(out, "Usage")
    /\ status' = "1"
    /\ pc' = "exited"
    /\ UNCHANGED <<doc, argc, perm, file, orig, content, migrated, ops, crashed, run>>

\* The argument check as len(sys.argv) < 2.
Begin_AtLeastOne ==
    /\ Live /\ pc = "start" /\ argc >= 2
    /\ pc' = "open_r"
    /\ UNCHANGED <<doc, argc, perm, file, orig, content, migrated, out, status, ops, crashed, run>>

\* filepath = sys.argv[1]
Begin ==
    /\ Live /\ pc = "start" /\ argc = 2
    /\ pc' = "open_r"
    /\ UNCHANGED <<doc, argc, perm, file, orig, content, migrated, out, status, ops, crashed, run>>

\* open(filepath, 'r'): an OSError is not caught and ends the process.
OpenRead ==
    /\ Live /\ pc = "open_r"
    /\ IF perm = "none"
       THEN /\ status' = "1"
            /\ pc' = "exited"
            /\ ops' = ops
       ELSE /\ status' = status
            /\ pc' = "read"
            /\ ops' = ops \cup {"open_r"}
    /\ UNCHANGED <<doc, argc, perm, file, orig, content, migrated, out, crashed, run>>

\* content = f.read(), and the file closed
Read ==
    /\ Live /\ pc = "read"
    /\ content' = file
    /\ ops' = ops \cup {"read"}
    /\ pc' = "rule1"
    /\ UNCHANGED <<doc, argc, perm, file, orig, migrated, out, status, crashed, run>>

\* content = re.sub(pattern1, replacement1, content)
Pattern1 ==
    /\ Live /\ pc = "rule1"
    /\ content' = Rule1(content)
    /\ pc' = "rule2"
    /\ UNCHANGED <<doc, argc, perm, file, orig, migrated, out, status, ops, crashed, run>>

\* content = re.sub(pattern2, replacement2, content)
Pattern2 ==
    /\ Live /\ pc = "rule2"
    /\ content' = Rule2(content)
    /\ pc' = "rule3"
    /\ UNCHANGED <<doc, argc, perm, file, orig, migrated, out, status, ops, crashed, run>>

\* content = re.sub(pattern3, replacement3, content)
Pattern3 ==
    /\ Live /\ pc = "rule3"
    /\ content' = Rule3(content)
    /\ pc' = "rule4"
    /\ UNCHANGED <<doc, argc, perm, file, orig, migrated, out, status, ops, crashed, run>>

\* content = re.sub(r'workflow_registry_destroy\(registry\);', ..., content)
Pattern4 ==
    /\ Live /\ pc = "rule4"
    /\ content' = Rule4(content)
    /\ pc' = "return"
    /\ UNCHANGED <<doc, argc, perm, file, orig, migrated, out, status, ops, crashed, run>>

\* return content; migrated = migrate_endpoint(content)
Return ==
    /\ Live /\ pc = "return"
    /\ migrated' = content
    /\ pc' = "open_w"
    /\ UNCHANGED <<doc, argc, perm, file, orig, content, out, status, ops, crashed, run>>

\* open(filepath, 'w') truncates the file; an OSError is not caught.
OpenWrite ==
    /\ Live /\ pc = "open_w"
    /\ IF perm = "rw"
       THEN /\ file' = <<>>
            /\ ops' = ops \cup {"open_w"}
            /\ pc' = "write"
            /\ status' = status
       ELSE /\ file' = file
            /\ ops' = ops
            /\ pc' = "exited"
            /\ status' = "1"
    /\ UNCHANGED <<doc, argc, perm, orig, content, migrated, out, crashed, run>>

\* f.write(migrated): the text goes to the file object's buffer, which passes
\* it on to the file as it fills: some prefix of the text is in the file.
Write ==
    /\ Live /\ pc = "write"
    /\ file' \in Prefixes(migrated)
    /\ ops' = ops \cup {"write"}
    /\ pc' = "close"
    /\ UNCHANGED <<doc, argc, perm, orig, content, migrated, out, status, crashed, run>>

\* The end of the with block without the flush of the buffer.
Close_NoFlush ==
    /\ Live /\ pc = "close"
    /\ file' = file
    /\ ops' = ops \cup {"close"}
    /\ pc' = "print"
    /\ UNCHANGED <<doc, argc, perm, orig, content, migrated, out, status, crashed, run>>

\* The end of the with block: the buffer flushed, the file closed.
Close ==
    /\ Live /\ pc = "close"
    /\ file' = migrated
    /\ ops' = ops \cup {"close"}
    /\ pc' = "print"
    /\ UNCHANGED <<doc, argc, perm, orig, content, migrated, out, status, crashed, run>>

\* print(f"Migrated {filepath}"), and the script ends
PrintMigrated ==
    /\ Live /\ pc = "print"
    /\ out' = Append(out, "Migrated")
    /\ status' = "0"
    /\ pc' = "done"
    /\ UNCHANGED <<doc, argc, perm, file, orig, content, migrated, ops, crashed, run>>

\* The process is interrupted (a signal, a power loss) where it stands.
Crash ==
    /\ Live /\ pc # "start"
    /\ crashed' = TRUE
    /\ UNCHANGED <<doc, argc, perm, file, orig, pc, content, migrated, out, status, ops, run>>

\* The script is run again on the file it has migrated.
Rerun ==
    /\ pc = "done" /\ status = "0" /\ run < MaxRuns
    /\ run' = run + 1
    /\ orig' = file
    /\ pc' = "start"
    /\ content' = <<>>
    /\ migrated' = <<>>
    /\ out' = <<>>
    /\ status' = "none"
    /\ ops' = {}
    /\ UNCHANGED <<doc, argc, perm, file, crashed>>

Next ==
    \/ UsageExit
    \/ Begin
    \/ OpenRead
    \/ Read
    \/ Pattern1
    \/ Pattern2
    \/ Pattern3
    \/ Pattern4
    \/ Return
    \/ OpenWrite
    \/ Write
    \/ Close
    \/ PrintMigrated
    \/ Crash
    \/ Rerun

Spec == Init /\ [][Next]_vars
\* ------------------------------------------------------------------ claims
Toks(s) == {s[i] : i \in 1..Len(s)}
Count(tok, s) == Cardinality({i \in 1..Len(s) : s[i] = tok})
OccursAt(sub, s, i) == i + Len(sub) - 1 <= Len(s) /\ SubSeq(s, i, i + Len(sub) - 1) = sub
Remove(s, i, n) == SubSeq(s, 1, i - 1) \o SubSeq(s, i + n, Len(s))
IsDestroyCall(s, i) == s[i] = Destroy /\ i < Len(s) /\ s[i + 1] = RPS
FirstText == doc.pre \o doc.mid \o doc.post

\* C1 (as claimed): an interrupted run leaves the file holding exactly the
\* original text or exactly migrate_endpoint(original text).
C1_CrashLeavesOriginalOrMigrated ==
    crashed => (file = orig \/ file = migrate_endpoint(orig))

\* C1 (amended): interrupted before open(filepath, 'w') the file holds the
\* original text; interrupted between that open and the end of the with block it
\* holds a prefix of migrate_endpoint(original text), the empty text included;
\* interrupted after the with block it holds migrate_endpoint(original text).
C1_CrashLeavesOriginalPrefixOrMigrated ==
    crashed =>
        /\ pc \in {"open_r", "read", "rule1", "rule2", "rule3", "rule4", "return", "open_w"}
              => file = orig
        /\ pc \in {"write", "close"} => IsPrefix(file, migrate_endpoint(orig))
        /\ pc = "print" => file = migrate_endpoint(orig)

C1_Witness ==
    /\ crashed /\ pc = "close"
    /\ file # orig /\ file # <<>> /\ file # migrated

\* C2 (as claimed): a second run of migrate_endpoint on the output of a first
\* run changes nothing, for every document.
C2_SecondRunChangesNothing ==
    (run >= 2 /\ pc = "done") => file = orig

\* C2 (amended): the output of a run holds no match of Rule D, and a second run
\* changes nothing when the output of the first holds no match of Rules A, B, C.
C2_SecondRunChangesNothingWithoutMatch ==
    run >= 2 =>
        /\ ~HasMatch(pattern4, orig)
        /\ (pc = "done" /\ ~HasMatch(pattern1, orig) /\ ~HasMatch(pattern2, orig)
                /\ ~HasMatch(pattern3, orig)) => file = orig

C2_Witness ==
    /\ run = 2 /\ pc = "done" /\ doc.kind = "e2e"
    /\ file = orig /\ file # FirstText

\* The replacement of Rule A: the lock of the mutex, then registry assigned the
\* shared registry.
C3_LockBlock ==
    <<UseComment, NL, SP, SP, SP, SP, Lock, RPS, NL, NL, SP, SP, SP, SP, Shared>>

C3_AfterRuleA(lead) ==
    doc.pre \o (IF lead = <<LoadComment>> THEN lead ELSE <<>>) \o C3_LockBlock \o doc.post

C3_RuleAOn(args) ==
    \A lead \in Leads, arg \in args :
        (run = 1 /\ doc.kind = "decl" /\ doc.mid = DeclDoc(lead, arg)) =>
            /\ pc = "rule2" => content = C3_AfterRuleA(lead)
            /\ pc = "done" => Decl \notin Toks(file)

\* C3 (as claimed): a declaration whose argument is any double-quoted string
\* without quotes in it is replaced by the lock block, and the output holds no
\* workflow_registry_create( text.
C3_RuleAReplacesDeclaration == C3_RuleAOn(Args)

\* C3 (amended): the same, for an argument of at least one character.
C3_RuleAReplacesNonEmptyDeclaration == C3_RuleAOn(Args \ {<<>>})

C3_Witness ==
    /\ run = 1 /\ pc = "rule2" /\ doc.kind = "decl"
    /\ doc.mid = DeclDoc(<<LoadComment, NL>>, <<X, RPS, NL, X>>)
    /\ content = doc.pre \o C3_LockBlock \o doc.post

\* The load block with every optional part.
C4_FullBlocks == {LoadCore(w) \o t : w \in WsRuns, t \in FullTails}
C4_NumDestroyCalls(s) == Cardinality({i \in 1..Len(s) : IsDestroyCall(s, i)})

\* C4: Rule C removes a load block that has every optional part, and nothing
\* before or after it; its destroy call is gone and is no unlock of the output.
C4_FullBlockRemoved ==
    (run = 1 /\ doc.kind = "load" /\ doc.mid \in C4_FullBlocks
        /\ pc \in {"rule4", "return"}) =>
        LET before == Rule2(Rule1(orig))
            n == Len(doc.mid)
        IN  \E i \in 1..Len(before) :
                /\ OccursAt(doc.mid, before, i)
                /\ pc = "rule4" => content = Remove(before, i, n)
                /\ pc = "return" =>
                    /\ Len(content) = Len(before) - n
                    /\ Count(Unlock, content) =
                           Count(Unlock, Remove(before, i, n))
                               + C4_NumDestroyCalls(Remove(before, i, n))

C4_Witness ==
    /\ run = 1 /\ pc = "rule4" /\ doc.kind = "load" /\ doc.mid \in C4_FullBlocks
    /\ doc.pre = <<X>> /\ content = <<X, X>>

\* C5: the output of Rule D holds no workflow_registry_destroy(registry); and
\* is its input with every such call, and nothing else, replaced by the unlock.
C5_NoDestroyCallLeft ==
    pc = "return" =>
        LET before == Rule3(Rule2(Rule1(orig)))
        IN  /\ \A i \in 1..Len(content) : ~IsDestroyCall(content, i)
            /\ Len(content) = Len(before)
            /\ \A i \in 1..Len(before) :
                   content[i] = IF IsDestroyCall(before, i) THEN Unlock ELSE before[i]

C5_Witness ==
    /\ run = 1 /\ pc = "return" /\ doc.kind = "destroy"
    /\ Count(Destroy, orig) = 2 /\ Count(Unlock, content) = 2

\* The output the end-to-end example is to give.
C6_Expected ==
    <<UseComment, NL, SP, SP, SP, SP, Lock, RPS, NL, NL, SP, SP, SP, SP, Shared, NL,
      IfNull, NL, SP, SP, SP, SP, Unlock, RPS,
      NL, SP, SP, SP, SP, SetErr, RespArgs, Q, NotInitMsg, Q, RPS,
      NL, SP, SP, SP, SP, RetState, NL, RBrace, NL,
      Unlock, RPS, NL>>

\* C6: the minimal document (declaration, null check, destroy call) is written
\* back as the lock block, the null check with the unlock, the new message and
\* the new error code, and the unlock in place of the destroy call.
C6_EndToEnd ==
    (run = 1 /\ doc.kind = "e2e") =>
        /\ pc \in {"open_w", "write", "close", "print", "done"} => migrated = C6_Expected
        /\ pc = "done" => file = C6_Expected

C6_Witness ==
    /\ run = 1 /\ doc.kind = "e2e" /\ pc = "done"
    /\ orig = E2EDoc /\ Count(Unlock, file) = 2 /\ Lock \in Toks(file)

\* C7: with an argument count other than one the run prints the usage line and
\* exits 1 without a file operation; with one argument naming a readable and
\* writable file the run ends with the file holding migrate_endpoint(original),
\* "Migrated" printed after the write, and status 0.
C7_CliOutcomes ==
    /\ argc # 2 =>
          /\ ops = {} /\ file = orig /\ pc \in {"start", "exited"}
          /\ pc = "exited" => (out = <<"Usage">> /\ status = "1")
    /\ (argc = 2 /\ perm = "rw" /\ pc = "done") =>
          /\ file = migrate_endpoint(orig)
          /\ out = <<"Migrated">> /\ status = "0"
    /\ "Migrated" \in Toks(out) =>
          /\ {"open_w", "write", "close"} \subseteq ops
          /\ file = migrated /\ argc = 2
    /\ status = "0" => pc = "done"

C7_Witness ==
    /\ argc = 2 /\ perm = "rw" /\ pc = "done" /\ run = 1
    /\ out = <<"Migrated">> /\ status = "0" /\ file # orig

\* C8: a rule whose pattern matches nowhere in the text it is given returns that
\* text, and a document none of the four patterns matches is written back as is.
C8_NoMatchNoChange ==
    /\ (pc = "rule2" /\ ~HasMatch(pattern1, orig)) => content = orig
    /\ (pc = "rule3" /\ ~HasMatch(pattern2, Rule1(orig))) => content = Rule1(orig)
    /\ (pc = "rule4" /\ ~HasMatch(pattern3, Rule2(Rule1(orig))))
           => content = Rule2(Rule1(orig))
    /\ (pc = "return" /\ ~HasMatch(pattern4, Rule3(Rule2(Rule1(orig)))))
           => content = Rule3(Rule2(Rule1(orig)))
    /\ (pc = "done" /\ ~HasMatch(pattern1, orig) /\ ~HasMatch(pattern2, orig)
            /\ ~HasMatch(pattern3, orig) /\ ~HasMatch(pattern4, orig)) => file = orig

C8_Witness ==
    /\ run = 1 /\ pc = "done" /\ doc.kind = "plain"
    /\ Decl \in Toks(orig) /\ file = orig /\ "write" \in ops

\* C9: Rule B puts each of the three whitespace runs of the null check back where
\* it was: before the error report, between the error report and the return,
\* before the closing brace.
C9_RuleBKeepsWhitespace ==
    \A w1 \in WsRuns, w2 \in WsRuns, w3 \in WsRuns :
        (run = 1 /\ pc = "rule3" /\ doc.kind = "null" /\ doc.mid = NullCheck(w1, w2, w3)) =>
            \E u \in WsRuns :
                content = doc.pre \o <<IfNull>> \o u \o <<Unlock, RPS>> \o w1
                    \o <<SetErr, RespArgs, Q, NotInitMsg, Q, RPS>> \o w2
                    \o <<RetState>> \o w3 \o <<RBrace>> \o doc.post

\* C10: Rule C deletes the load block whether or not the comment and the cleanup
\* call follow it, for any whitespace after its closing brace; the block never
\* stays with its destroy call turned into an unlock.
C10_LoadBlockDeleted ==
    (run = 1 /\ doc.kind = "load") =>
        /\ pc = "rule4" => (Load \notin Toks(content) /\ IfResult \notin Toks(content))
        /\ pc = "return" => ~(Load \in Toks(content) /\ Unlock \in Toks(content))
====
